---- MODULE Spec2Model ----
(***************************************************************************)
(* KibanaMetricsAdapter (x-pack infra, kibana_metrics_adapter.ts):         *)
(* getMetrics validates the node, starts one makeTSVBRequest task per      *)
(* requested metric, joins them with Promise.all and normalises and        *)
(* flattens the raw TSVB responses.                                        *)
(*                                                                         *)
(* One action is one run of JavaScript between two suspension points: the  *)
(* synchronous code after an await together with the microtasks it queues. *)
(* The backend (Elasticsearch search, TSVB) answers in any order and with  *)
(* any outcome.                                                            *)
(***************************************************************************)
EXTENDS Integers, Sequences, FiniteSets, TLC

VARIABLES
  options,      \* InfraMetricsRequestOptions: [metrics, cloudId]
  pc,           \* getMetrics: "idle", "checkValidNode", "join", "resolved", "rejected"
  validNode,    \* outcome of the await on checkValidNode
  requests,     \* the makeTSVBRequest promises, one per options.metrics entry
  results,      \* the values array Promise.all fills, by index
  returned,     \* the list getMetrics resolved with
  thrown,       \* the error getMetrics rejected with
  searches,     \* backend: existence-check searches received
  probes,       \* backend: interval probes received, per task
  queries,      \* backend: TSVB metric queries received, per task
  settleOrder,  \* history: task indices in the order their promises settled
  cancelled,    \* requestContext: its cancellation signal, fixed for the call
  calculated    \* calculatedInterval of each task (line 176)

vars == << options, pc, validNode, requests, results, returned, thrown,
           searches, probes, queries, settleOrder, cancelled, calculated >>

----------------------------------------------------------------------------
(* Bounds and input domains *)

\* longest options.metrics list explored
MaxMetrics == 2

\* options.nodeIds.nodeId of the request
NodeId == "node-1"

\* options.nodeIds.cloudId: "" stands for an absent (falsy) cloud id
CloudIds == {"", "cloud-1"}

\* fields.id returned by findInventoryFields for the node type
nodeField == "host.name"

\* options.timerange.interval
IntervalHint == [op |-> "", n |-> 10, unit |-> "s"]

\* metrics.tsvb: the catalog of TSVB model creators (only the fields
\* makeTSVBRequest reads from the created model); id_type, map_field_to and
\* requires are independent of one another
Catalog ==
  [ hostCpuUsage      |-> [id_type |-> "node",  map_field_to |-> "",
                           requires |-> <<"system.cpu">>],
    hostLoad          |-> [id_type |-> "node",  map_field_to |-> "host.hostname",
                           requires |-> <<>>],
    awsCpuUtilization |-> [id_type |-> "cloud", map_field_to |-> "cloud.instance.id",
                           requires |-> <<"aws.ec2">>],
    awsOverview       |-> [id_type |-> "cloud", map_field_to |-> "",
                           requires |-> <<>>] ]

\* metric ids a request may name; "nope" has no TSVB model
RequestableIds == (DOMAIN Catalog) \cup {"nope"}

\* InventoryMetricRT: the runtime registry of metric identifiers
InventoryMetricRT == DOMAIN Catalog

\* values calculateMetricInterval can compute from a probe (seconds)
CalcValues == {30}

NoInterval == [op |-> "none", n |-> 0, unit |-> ""]

\* calculatedInterval before calculateMetricInterval has returned
Uncalculated == [op |-> "unset", n |-> 0, unit |-> ""]

\* one backend series: data is a sequence of <<timestamp, value>> pairs
SeriesA == [id |-> "cpu", label |-> "CPU", data |-> << <<1000, 500>>, <<2000, 600>> >>]
SeriesB == [id |-> "mem", label |-> "Memory", data |-> << <<1000, 40>> >>]

NoPanel == [series |-> <<>>]

\* raw TSVB responses: the keys in Object.keys order, each with its panel
RawResponses ==
  { << [key |-> "hostCpuUsage", panel |-> [series |-> <<SeriesA>>]] >>,
    << [key |-> "type", panel |-> NoPanel],
       [key |-> "hostLoad", panel |-> [series |-> <<SeriesB, SeriesA>>]],
       [key |-> "awsOverview", panel |-> [series |-> <<SeriesB>>]],
       [key |-> "uiRestrictions", panel |-> NoPanel] >>,
    << [key |-> "awsCpuUtilization", panel |-> [series |-> <<SeriesA>>]],
       [key |-> "bogus", panel |-> [series |-> <<SeriesB>>]] >>,
    << [key |-> "uiRestrictions", panel |-> NoPanel] >>,
    << [key |-> "junk", panel |-> [series |-> <<>>]],
       [key |-> "hostCpuUsage", panel |-> [series |-> <<SeriesA, SeriesB>>]] >> }

----------------------------------------------------------------------------
(* Errors *)

NoError == [kind |-> "none", id |-> "", task |-> 0]

\* '{nodeId} does not exist.'
NodeNotFound == [kind |-> "NodeNotFound", id |-> NodeId, task |-> 0]

\* the message of line 156 built from the node id instead of the metric id
MissingModelWrongId(metricId, i) == [kind |-> "ConfigurationError", id |-> NodeId, task |-> i]

\* 'The TSVB model for {metricId} does not exist for {nodeType}'
MissingModel(metricId, i) == [kind |-> "ConfigurationError", id |-> metricId, task |-> i]

\* the throw of line 192 with the message of line 97
CloudIdMissingWrongKey(metricId, i) == [kind |-> "NodeNotFound", id |-> NodeId, task |-> i]

\* 'Model for {metricId} requires a cloudId, but none was given for {nodeId}.'
CloudIdMissing(metricId, i) == [kind |-> "ModelRequirementError", id |-> metricId, task |-> i]

\* '{id} is not a valid InfraMetric'
InvalidMetric(id) == [kind |-> "ConfigurationError", id |-> id, task |-> 0]

\* the dispatcher's refusal to issue a call on a cancelled context
Cancelled(call) == [kind |-> "Cancelled", id |-> call, task |-> 0]

\* an error of the backend, passed on unchanged; call names the failed call
BackendError(call, i) == [kind |-> "BackendUnavailable", id |-> call, task |-> i]

----------------------------------------------------------------------------
(* makeTSVBRequest *)

NoQuery == [interval |-> NoInterval, field |-> "", id |-> ""]

NoRaw == << >>

Task(st, err, sent, raw) == [st |-> st, err |-> err, sent |-> sent, raw |-> raw]

\* get(metrics, ['tsvb', metricId]) is defined
HasModel(metricId) == metricId \in DOMAIN Catalog

\* calculateMetricInterval searches the backend only for a model that
\* names the modules it requires
NeedsProbe(metricId) == Catalog[metricId].requires # <<>>

\* the override of lines 187-189 left out
ModelIntervalNoOverride(calculatedInterval) == IntervalHint

\* if (calculatedInterval) model.interval = `>=${calculatedInterval}s`
ModelInterval(calculatedInterval) ==
  IF calculatedInterval # NoInterval /\ calculatedInterval.n # 0
    THEN [op |-> ">=", n |-> calculatedInterval.n, unit |-> "s"]
    ELSE IntervalHint

\* the test of line 191 with the negation of cloudId lost
RequiresCloudIdInverted(model, cloudId) == model.id_type = "cloud" /\ cloudId # ""

\* the test of line 191 left out
RequiresCloudIdNever(model, cloudId) == FALSE

\* model.id_type === 'cloud' && !options.nodeIds.cloudId
RequiresCloudId(model, cloudId) == model.id_type = "cloud" /\ cloudId = ""

\* the field chosen by the model's id_type instead of its map_field_to
MatchFilterByScope(model, cloudId) ==
  IF model.id_type = "cloud"
    THEN [field |-> model.map_field_to, id |-> cloudId]
    ELSE [field |-> nodeField, id |-> NodeId]

\* the id and the match filter of the dispatched query
MatchFilter(model, cloudId) ==
  LET id == IF model.id_type = "cloud" THEN cloudId ELSE NodeId
  IN  IF model.map_field_to # ""
        THEN [field |-> model.map_field_to, id |-> id]
        ELSE [field |-> nodeField, id |-> id]

\* a task that gives up when it resumes after getMetrics was rejected
AfterIntervalAbandoned(metricId, i, cloudId, calculatedInterval) ==
  IF pc = "rejected"
    THEN Task("rejected", Cancelled("tsvb"), NoQuery, NoRaw)
    ELSE IF RequiresCloudId(Catalog[metricId], cloudId)
      THEN Task("rejected", CloudIdMissing(metricId, i), NoQuery, NoRaw)
      ELSE Task("tsvb", NoError,
                [interval |-> ModelInterval(calculatedInterval),
                 field |-> MatchFilter(Catalog[metricId], cloudId).field,
                 id |-> MatchFilter(Catalog[metricId], cloudId).id], NoRaw)

\* makeTSVBRequest after the await on calculateMetricInterval returned
\* calculatedInterval: the task throws or dispatches its TSVB query
AfterInterval(metricId, i, cloudId, calculatedInterval) ==
  LET model == Catalog[metricId]
      f == MatchFilter(model, cloudId)
  IN  IF RequiresCloudId(model, cloudId)
        THEN Task("rejected", CloudIdMissing(metricId, i), NoQuery, NoRaw)
        ELSE Task("tsvb", NoError,
                  [interval |-> ModelInterval(calculatedInterval),
                   field |-> f.field, id |-> f.id], NoRaw)

\* a map that awaits each task before it starts the next one
StartTaskAwaited(metricId, i, cloudId) ==
  IF i > 1
    THEN Task("waiting", NoError, NoQuery, NoRaw)
    ELSE IF ~HasModel(metricId)
      THEN Task("rejected", MissingModel(metricId, i), NoQuery, NoRaw)
      ELSE IF NeedsProbe(metricId)
        THEN Task("interval", NoError, NoQuery, NoRaw)
        ELSE AfterInterval(metricId, i, cloudId, NoInterval)

\* makeTSVBRequest from its call to its first suspension on the backend
StartTask(metricId, i, cloudId) ==
  IF ~HasModel(metricId)
    THEN Task("rejected", MissingModel(metricId, i), NoQuery, NoRaw)
    ELSE IF NeedsProbe(metricId)
      THEN Task("interval", NoError, NoQuery, NoRaw)
      ELSE AfterInterval(metricId, i, cloudId, NoInterval)

----------------------------------------------------------------------------
(* the then-chain of getMetrics: normalise and flatten *)

ReservedKeys == {"type", "uiRestrictions"}

\* Object.keys(result).filter(k => !['type', 'uiRestrictions'].includes(k))
IsMetricKey(entry) == entry.key \notin ReservedKeys

\* the kept keys collected back to front
metricIdsReversed(result) ==
  LET kept == SelectSeq(result, IsMetricKey)
  IN  [e \in 1..Len(kept) |-> kept[Len(kept) + 1 - e]]

metricIds(result) == SelectSeq(result, IsMetricKey)

\* the two fields of a point taken from the wrong positions
MapPointsSwapped(data) ==
  [p \in 1..Len(data) |-> [timestamp |-> data[p][2], value |-> data[p][1]]]

\* data: series.data.map(point => ({ timestamp: point[0], value: point[1] }))
MapPoints(data) ==
  [p \in 1..Len(data) |-> [timestamp |-> data[p][1], value |-> data[p][2]]]

MapSeries(series) ==
  [s \in 1..Len(series) |->
     [id |-> series[s].id, label |-> series[s].label, data |-> MapPoints(series[s].data)]]

\* results.map(result => metricIds.map(id => ({ id, series })))
NormalizeOne(result) ==
  LET ids == metricIds(result)
  IN  [e \in 1..Len(ids) |-> [id |-> ids[e].key, series |-> MapSeries(ids[e].panel.series)]]

\* only the first metric's list is returned
flattenFirst(lists) == IF lists = << >> THEN << >> ELSE Head(lists)

RECURSIVE flatten(_)
flatten(lists) ==
  IF lists = << >> THEN << >> ELSE Head(lists) \o flatten(Tail(lists))

\* the keys InventoryMetricRT.is is asked about, in the order it is asked
KeysChecked(values) ==
  flatten([i \in 1..Len(values) |->
             [e \in 1..Len(metricIds(values[i])) |-> metricIds(values[i])[e].key]])

\* the test of line 118 left out
IsInvalidKeyNever(k) == FALSE

\* !InventoryMetricRT.is(id)
IsInvalidKey(k) == k \notin InventoryMetricRT

\* the outcome of Promise.all(requests).then(...).then(flatten) on values
ThenChain(values) ==
  LET bad == SelectSeq(KeysChecked(values), IsInvalidKey)
  IN  IF bad # << >>
        THEN [pc |-> "rejected", returned |-> << >>, thrown |-> InvalidMetric(Head(bad))]
        ELSE [pc |-> "resolved",
              returned |-> flatten([i \in 1..Len(values) |-> NormalizeOne(values[i])]),
              thrown |-> NoError]

----------------------------------------------------------------------------
(* Promise.all *)

NoValue == << [key |-> "(empty)", panel |-> NoPanel] >>

\* values collected in the order the promises fulfil
StoreValueInArrivalOrder(values, i, value) ==
  LET free == { j \in 1..Len(values) : values[j] = NoValue }
      slot == CHOOSE j \in free : \A h \in free : j <= h
  IN  [values EXCEPT ![slot] = value]

\* resolveElement: the value of promise i is stored at index i
StoreValue(values, i, value) == [values EXCEPT ![i] = value]

AllStored(values) == \A i \in 1..Len(values) : values[i] # NoValue

\* a join that waits for every promise to settle before it rejects
JoinOnRejectWaits(err) ==
  IF pc = "join" /\ \A j \in 1..Len(requests) : requests'[j].st \in {"fulfilled", "rejected"}
    THEN /\ pc' = "rejected"
         /\ thrown' = err
         /\ UNCHANGED returned
    ELSE UNCHANGED << pc, thrown, returned >>

\* a best-effort join: a rejection resolves with what has arrived so far
JoinOnRejectPartial(err) ==
  IF pc = "join"
    THEN /\ pc' = "resolved"
         /\ returned' = flatten([j \in 1..Len(results) |->
                            IF results[j] = NoValue THEN << >> ELSE NormalizeOne(results[j])])
         /\ UNCHANGED thrown
    ELSE UNCHANGED << pc, thrown, returned >>

\* a join whose promise is settled again by every later rejection
JoinOnRejectEveryTime(err) ==
  IF pc \in {"join", "rejected"}
    THEN /\ pc' = "rejected"
         /\ thrown' = err
         /\ UNCHANGED returned
    ELSE UNCHANGED << pc, thrown, returned >>

\* the join after promise i rejected with err: the first rejection settles it
JoinOnReject(err) ==
  IF pc = "join"
    THEN /\ pc' = "rejected"
         /\ thrown' = err
         /\ UNCHANGED returned
    ELSE UNCHANGED << pc, thrown, returned >>

\* the join after promise i fulfilled and values became vs
JoinOnFulfil(vs) ==
  IF pc = "join" /\ AllStored(vs)
    THEN LET out == ThenChain(vs)
         IN  /\ pc' = out.pc
             /\ returned' = out.returned
             /\ thrown' = out.thrown
    ELSE UNCHANGED << pc, thrown, returned >>

----------------------------------------------------------------------------
(* Actions *)

Init ==
  /\ options \in { [metrics |-> m, cloudId |-> c] :
                     m \in UNION { [1..k -> RequestableIds] : k \in 0..MaxMetrics },
                     c \in CloudIds }
  /\ pc = "idle"
  /\ validNode = "pending"
  /\ requests = << >>
  /\ results = << >>
  /\ returned = << >>
  /\ thrown = NoError
  /\ searches = 0
  /\ probes = [i \in 1..Len(options.metrics) |-> 0]
  /\ queries = [i \in 1..Len(options.metrics) |-> 0]
  /\ settleOrder = << >>
  /\ cancelled \in BOOLEAN
  /\ calculated = [i \in 1..Len(options.metrics) |-> Uncalculated]

\* a dispatcher that never looks at the context
DispatchRefusedNever(ctxCancelled) == FALSE

\* framework.callWithRequest checks the context before it issues I/O
DispatchRefused(ctxCancelled) == ctxCancelled

\* getMetrics is called: it runs to the await on checkValidNode; on a context
\* that is already cancelled the search is refused and the await throws
GetMetrics ==
  /\ pc = "idle"
  /\ IF DispatchRefused(cancelled)
       THEN /\ pc' = "rejected"
            /\ validNode' = "refused"
            /\ thrown' = Cancelled("search")
            /\ UNCHANGED searches
       ELSE /\ pc' = "checkValidNode"
            /\ searches' = searches + 1
            /\ UNCHANGED << validNode, thrown >>
  /\ UNCHANGED << options, requests, results, returned,
                  probes, queries, settleOrder, cancelled, calculated >>

\* the failed existence check tried once more
CheckValidNodeFailsRetried ==
  /\ pc = "checkValidNode"
  /\ validNode' = "error"
  /\ IF searches < 2
       THEN /\ searches' = searches + 1
            /\ UNCHANGED << pc, thrown >>
       ELSE /\ pc' = "rejected"
            /\ thrown' = BackendError("search", 0)
            /\ UNCHANGED searches
  /\ UNCHANGED << options, requests, results, returned, probes, queries,
                  settleOrder, cancelled, calculated >>

\* the existence-check search failed: the await throws
CheckValidNodeFails ==
  /\ pc = "checkValidNode"
  /\ validNode' = "error"
  /\ pc' = "rejected"
  /\ thrown' = BackendError("search", 0)
  /\ UNCHANGED << options, requests, results, returned, searches, probes, queries,
                  settleOrder, cancelled, calculated >>

\* the check of line 95 ignored
NodeCheckSkipped(valid) == TRUE

\* the check of line 95 inverted
NodeCheckInverted(valid) == ~valid

\* if (!validNode) throw
NodeCheckPasses(valid) == valid

\* the order in which the promises of tasks settle while the continuation of
\* getMetrics runs: a task without a model is rejected inside map(), a task
\* that needs no probe throws in its first microtask, in index order each
StartOrder(metrics, tasks) ==
  LET idx == [i \in 1..Len(tasks) |-> i]
  IN  SelectSeq(idx, LAMBDA i : ~HasModel(metrics[i]))
        \o SelectSeq(idx, LAMBDA i : HasModel(metrics[i]) /\ tasks[i].st = "rejected")

\* checkValidNode returned: the throw of line 95, or the map over
\* options.metrics, Promise.all and the microtasks of the started tasks
CheckValidNodeReturns(valid) ==
  /\ pc = "checkValidNode"
  /\ validNode' = IF valid THEN "true" ELSE "false"
  /\ IF ~NodeCheckPasses(valid)
       THEN /\ pc' = "rejected"
            /\ thrown' = NodeNotFound
            /\ UNCHANGED << requests, results, returned, probes, queries, settleOrder,
                            calculated >>
       ELSE LET k == Len(options.metrics)
                tasks == [i \in 1..k |-> StartTask(options.metrics[i], i, options.cloudId)]
                order == StartOrder(options.metrics, tasks)
            IN  /\ requests' = tasks
                /\ results' = [i \in 1..k |-> NoValue]
                /\ probes' = [i \in 1..k |-> IF tasks[i].st = "interval" THEN 1 ELSE 0]
                /\ queries' = [i \in 1..k |-> IF tasks[i].st = "tsvb" THEN 1 ELSE 0]
                /\ settleOrder' = order
                /\ calculated' = [i \in 1..k |->
                                    IF HasModel(options.metrics[i])
                                       /\ ~NeedsProbe(options.metrics[i])
                                    THEN NoInterval ELSE Uncalculated]
                /\ IF order # << >>
                     THEN /\ pc' = "rejected"
                          /\ thrown' = tasks[Head(order)].err
                          /\ UNCHANGED returned
                     ELSE IF k = 0
                       THEN LET out == ThenChain(<< >>)
                            IN  /\ pc' = out.pc
                                /\ returned' = out.returned
                                /\ thrown' = out.thrown
                       ELSE /\ pc' = "join"
                            /\ UNCHANGED << returned, thrown >>
  /\ UNCHANGED << options, searches, cancelled >>

\* the interval probe of task i failed: the await in makeTSVBRequest throws
IntervalProbeFails(i) ==
  /\ i \in 1..Len(requests)
  /\ requests[i].st = "interval"
  /\ requests' = [requests EXCEPT ![i] =
                    Task("rejected", BackendError("probe", i), NoQuery, NoRaw)]
  /\ settleOrder' = Append(settleOrder, i)
  /\ JoinOnReject(BackendError("probe", i))
  /\ UNCHANGED << options, validNode, results, searches, probes, queries,
                  cancelled, calculated >>

\* calculateMetricInterval of task i returned: lines 187-209
IntervalReturns(i, calculatedInterval) ==
  /\ i \in 1..Len(requests)
  /\ requests[i].st = "interval"
  /\ calculated' = [calculated EXCEPT ![i] = calculatedInterval]
  /\ LET t == AfterInterval(options.metrics[i], i, options.cloudId, calculatedInterval)
     IN  /\ requests' = [requests EXCEPT ![i] = t]
         /\ IF t.st = "rejected"
              THEN /\ settleOrder' = Append(settleOrder, i)
                   /\ JoinOnReject(t.err)
                   /\ UNCHANGED queries
              ELSE /\ queries' = [queries EXCEPT ![i] = @ + 1]
                   /\ UNCHANGED << settleOrder, pc, thrown, returned >>
  /\ UNCHANGED << options, validNode, results, searches, probes, cancelled >>

\* framework.makeTSVBRequest of task i failed
TSVBRequestFails(i) ==
  /\ i \in 1..Len(requests)
  /\ requests[i].st = "tsvb"
  /\ requests' = [requests EXCEPT ![i] =
                    Task("rejected", BackendError("tsvb", i), @.sent, NoRaw)]
  /\ settleOrder' = Append(settleOrder, i)
  /\ JoinOnReject(BackendError("tsvb", i))
  /\ UNCHANGED << options, validNode, results, searches, probes, queries,
                  cancelled, calculated >>

\* framework.makeTSVBRequest of task i returned raw
TSVBRequestReturns(i, raw) ==
  /\ i \in 1..Len(requests)
  /\ requests[i].st = "tsvb"
  /\ requests' = [requests EXCEPT ![i] = Task("fulfilled", NoError, @.sent, raw)]
  /\ settleOrder' = Append(settleOrder, i)
  /\ results' = StoreValue(results, i, raw)
  /\ JoinOnFulfil(results')
  /\ UNCHANGED << options, validNode, searches, probes, queries, cancelled, calculated >>

Next ==
  \/ GetMetrics
  \/ CheckValidNodeFails
  \/ \E valid \in BOOLEAN : CheckValidNodeReturns(valid)
  \/ \E i \in 1..MaxMetrics : IntervalProbeFails(i)
  \/ \E i \in 1..MaxMetrics, c \in {NoInterval} \cup { [op |-> "", n |-> v, unit |-> "s"] : v \in CalcValues } :
       IntervalReturns(i, c)
  \/ \E i \in 1..MaxMetrics : TSVBRequestFails(i)
  \/ \E i \in 1..MaxMetrics, raw \in RawResponses : TSVBRequestReturns(i, raw)

Spec == Init /\ [][Next]_vars

\* every backend call that is outstanding eventually completes, with a result
\* or with an error; whether getMetrics is called at all is left open
BackendCompletes ==
  /\ WF_vars(CheckValidNodeFails \/ \E valid \in BOOLEAN : CheckValidNodeReturns(valid))
  /\ \A i \in 1..MaxMetrics :
       /\ WF_vars(IntervalProbeFails(i)
                    \/ \E c \in {NoInterval} \cup { [op |-> "", n |-> v, unit |-> "s"] : v \in CalcValues } :
                          IntervalReturns(i, c))
       /\ WF_vars(TSVBRequestFails(i) \/ \E raw \in RawResponses : TSVBRequestReturns(i, raw))

FairSpec == Init /\ [][Next]_vars /\ BackendCompletes

----------------------------------------------------------------------------
(* Properties *)

Tasks == 1..Len(requests)

Settled == pc \in {"resolved", "rejected"}

PerMetricCall(i) == probes[i] > 0 \/ queries[i] > 0

\* the tasks whose promise rejected, in the order in which they rejected
Failed == SelectSeq(settleOrder, LAMBDA i : requests[i].st = "rejected")

\* C1: in every state in which the backend has received an interval probe or
\* a TSVB metric query, the existence check was sent, has completed and has
\* returned true; none is received while the check is still awaited.
C1_ExistenceCheckFirst ==
  \A i \in 1..Len(options.metrics) :
    PerMetricCall(i) => /\ validNode = "true"
                        /\ searches = 1
                        /\ pc \notin {"idle", "checkValidNode"}

C1_Witness ==
  /\ validNode = "true"
  /\ \E i \in Tasks : probes[i] = 1 /\ queries[i] = 1

\* C2: when the existence check returned false, getMetrics is rejected with
\* '<nodeId> does not exist.' and the existence check is the only call the
\* backend received, whatever options.metrics holds.
C2_NodeNotFound ==
  validNode = "false" =>
    /\ pc = "rejected"
    /\ thrown = [kind |-> "NodeNotFound", id |-> NodeId, task |-> 0]
    /\ returned = << >>
    /\ searches = 1
    /\ requests = << >>
    /\ \A i \in 1..Len(options.metrics) : probes[i] = 0 /\ queries[i] = 0

C2_Witness ==
  /\ validNode = "false"
  /\ pc = "rejected"
  /\ Len(options.metrics) >= 2
  /\ \E i \in 1..Len(options.metrics) : options.metrics[i] \in DOMAIN Catalog

\* C3: getMetrics resolves only when the existence check passed, every task
\* fulfilled and every non-reserved key of every response is a registered
\* metric; otherwise it rejects with one error and returns no list, also when
\* some of the metrics did succeed.
C3_AllOrNothing ==
  /\ pc = "resolved" =>
       /\ validNode = "true"
       /\ thrown = NoError
       /\ Len(requests) = Len(options.metrics)
       /\ \A i \in Tasks :
            /\ requests[i].st = "fulfilled"
            /\ \A p \in 1..Len(requests[i].raw) :
                 \/ requests[i].raw[p].key \in {"type", "uiRestrictions"}
                 \/ requests[i].raw[p].key \in InventoryMetricRT
  /\ pc = "rejected" => thrown # NoError /\ returned = << >>
  /\ ~Settled => thrown = NoError /\ returned = << >>

\* a rejection although one metric succeeded with entries to return
C3_Witness ==
  /\ pc = "rejected"
  /\ \E i, j \in Tasks :
       /\ requests[i].st = "fulfilled"
       /\ \E p \in 1..Len(requests[i].raw) : requests[i].raw[p].key \in InventoryMetricRT
       /\ requests[j].st = "rejected"

\* C4: as soon as one task has failed, whatever its siblings are doing,
\* getMetrics is rejected, and with the error of the task that failed first
\* in time; siblings that succeed or fail later do not change it.
C4_FailFast ==
  Failed # << >> =>
    /\ pc = "rejected"
    /\ thrown = requests[Head(Failed)].err
    /\ thrown.task = Head(Failed)

\* B of [A, B] failed first, A's query succeeded afterwards
C4_Witness ==
  /\ pc = "rejected"
  /\ Len(settleOrder) = 2
  /\ settleOrder[1] = 2 /\ settleOrder[2] = 1
  /\ requests[2].st = "rejected" /\ requests[1].st = "fulfilled"
  /\ thrown = BackendError("tsvb", 2)

\* the requested metric at i has no TSVB model
Unknown(i) == options.metrics[i] \notin DOMAIN Catalog

\* the requested metric at i is cloud-scoped and the request has no cloud id
CloudMissing(i) ==
  /\ ~Unknown(i)
  /\ Catalog[options.metrics[i]].id_type = "cloud"
  /\ options.cloudId = ""

Requested == 1..Len(options.metrics)

\* every task has settled: nothing is in flight any more
Quiescent == \A i \in Tasks : requests[i].st \in {"fulfilled", "rejected"}

\* the node exists, every id resolves and no cloud-scoped model lacks its id
C5_Valid ==
  /\ validNode = "true"
  /\ \A i \in Requested : ~Unknown(i) /\ ~CloudMissing(i)

\* C5 as claimed: for such a request exactly one metric query per requested
\* id has reached the backend once nothing is in flight.
C5_Original ==
  (C5_Valid /\ Quiescent) => \A i \in Requested : queries[i] = 1

\* C5, amended: no metric query is ever issued twice, and for such a request
\* the backend has received exactly one metric query for every requested id
\* whose interval calculation has returned, whether or not any query failed
\* and whether or not getMetrics is already rejected; a task whose interval
\* probe failed issues none.
C5_FanOut ==
  /\ \A i \in Requested : queries[i] <= 1 /\ probes[i] <= 1
  /\ C5_Valid =>
       \A i \in Requested :
         queries[i] = IF requests[i].st = "interval"
                         \/ requests[i].err = BackendError("probe", i)
                      THEN 0 ELSE 1

\* two queries issued although the first one to answer failed
C5_Witness ==
  /\ C5_Valid
  /\ Len(options.metrics) = 2
  /\ options.metrics[1] # options.metrics[2]
  /\ queries[1] = 1 /\ queries[2] = 1
  /\ pc = "rejected"
  /\ thrown.id = "tsvb"

\* where the raw responses hold a key that is not reserved: <<task, position>>
RawMetricKeys ==
  UNION { { <<i, p>> : p \in { q \in 1..Len(requests[i].raw) :
                                 requests[i].raw[q].key \notin {"type", "uiRestrictions"} } }
          : i \in Tasks }

\* C6: the list getMetrics resolves with has one entry for each non-reserved
\* key of each raw response and nothing else: none omitted, no id that is not
\* such a key, none with the id 'type' or 'uiRestrictions'.
C6_ExactUnion ==
  pc = "resolved" =>
    /\ Len(returned) = Cardinality(RawMetricKeys)
    /\ \A e \in 1..Len(returned) :
         /\ returned[e].id \notin {"type", "uiRestrictions"}
         /\ \E ip \in RawMetricKeys : requests[ip[1]].raw[ip[2]].key = returned[e].id
    /\ \A ip \in RawMetricKeys :
         \E e \in 1..Len(returned) : returned[e].id = requests[ip[1]].raw[ip[2]].key

C6_Witness ==
  /\ pc = "resolved"
  /\ Len(returned) = 3
  /\ \E i \in Tasks : \E p \in 1..Len(requests[i].raw) : requests[i].raw[p].key = "type"

\* C7 as claimed: a request naming an id without a model ends rejected with
\* a ConfigurationError for such an id, and no call is made for such an id.
C7_Original ==
  ((\E i \in Requested : Unknown(i)) /\ Settled) =>
    /\ pc = "rejected"
    /\ thrown.kind = "ConfigurationError"
    /\ \E i \in Requested : Unknown(i) /\ thrown.id = options.metrics[i]
    /\ \A i \in Requested : Unknown(i) => probes[i] = 0 /\ queries[i] = 0

\* C7, amended: once the existence check has returned true, a request naming
\* an id without a model is rejected with the ConfigurationError of the first
\* such id in request order, and the task of every such id is rejected without
\* an interval probe or a metric query.
C7_UnknownMetric ==
  (validNode = "true" /\ \E i \in Requested : Unknown(i)) =>
    LET first == CHOOSE i \in Requested :
                   Unknown(i) /\ \A j \in Requested : Unknown(j) => i <= j
    IN  /\ pc = "rejected"
        /\ thrown = [kind |-> "ConfigurationError", id |-> options.metrics[first],
                     task |-> first]
        /\ \A i \in Requested :
             Unknown(i) => /\ requests[i].st = "rejected"
                           /\ probes[i] = 0
                           /\ queries[i] = 0

\* the unknown id rejects the request while a sibling's probe is out
C7_Witness ==
  /\ validNode = "true"
  /\ pc = "rejected"
  /\ thrown.kind = "ConfigurationError"
  /\ Len(options.metrics) = 2
  /\ Unknown(2)
  /\ probes[1] = 1

\* C8 as claimed: with a cloud-scoped model and no cloud id the outcome is
\* ModelRequirementError, whether the node exists or not.
C8_Original ==
  ((\E i \in Requested : CloudMissing(i)) /\ Settled /\ validNode \in {"true", "false"}) =>
    pc = "rejected" /\ thrown.kind = "ModelRequirementError"

\* C8, amended: a request for a cloud-scoped model without a cloud id never
\* resolves, and its error depends on the existence check: NodeNotFound when
\* the node does not exist; when it exists the model's task never dispatches
\* a query and fails with ModelRequirementError (or with the backend's error
\* if its interval probe failed), and getMetrics is rejected, with that
\* ModelRequirementError when that task is the first to fail.
C8_CloudIdRequired ==
  \A i \in Requested :
    CloudMissing(i) =>
      /\ pc # "resolved"
      /\ validNode = "false" => pc = "rejected" /\ thrown.kind = "NodeNotFound"
      /\ validNode = "true" =>
           LET mre == [kind |-> "ModelRequirementError", id |-> options.metrics[i],
                       task |-> i]
           IN  /\ requests[i].st \in {"interval", "rejected"}
               /\ requests[i].st = "rejected" =>
                    /\ requests[i].err \in {mre, BackendError("probe", i)}
                    /\ pc = "rejected"
                    /\ (Head(Failed) = i /\ requests[i].err = mre) => thrown = mre

C8_Witness ==
  /\ validNode = "true"
  /\ pc = "rejected"
  /\ thrown.kind = "ModelRequirementError"
  /\ \E i \in Requested : CloudMissing(i) /\ thrown.task = i

\* C9 as claimed: for a cloud-scoped model without a cloud id neither an
\* interval probe nor a metric query reaches the backend.
C9_Original ==
  \A i \in Requested : CloudMissing(i) => probes[i] = 0 /\ queries[i] = 0

\* C9, amended: for a cloud-scoped model without a cloud id the
\* ModelRequirementError is raised before the metric query, which never
\* reaches the backend; it is raised after the interval calculation, so the
\* interval probe of a model that requires one has been sent and answered by
\* then.
C9_NoQueryWithoutCloudId ==
  \A i \in Requested :
    CloudMissing(i) =>
      /\ queries[i] = 0
      /\ \A j \in Tasks :
           (j = i /\ requests[j].err.kind = "ModelRequirementError") =>
             /\ requests[j].sent = NoQuery
             /\ probes[j] = IF Catalog[options.metrics[j]].requires # << >> THEN 1 ELSE 0

C9_Witness ==
  \E i \in Tasks :
    /\ CloudMissing(i)
    /\ requests[i].err.kind = "ModelRequirementError"
    /\ probes[i] = 1
    /\ queries[i] = 0

\* the ids of the non-reserved keys of the raw responses, task after task in
\* the given order of tasks
RECURSIVE RawIdsAlong(_)
RawIdsAlong(order) ==
  IF order = << >> THEN << >>
  ELSE LET raw == requests[Head(order)].raw
           keep == SelectSeq(raw, LAMBDA x : x.key \notin {"type", "uiRestrictions"})
       IN  [e \in 1..Len(keep) |-> keep[e].key] \o RawIdsAlong(Tail(order))

RequestOrder == [i \in 1..Len(requests) |-> i]

ReturnedIds == [e \in 1..Len(returned) |-> returned[e].id]

\* C10 as claimed, read on one run: when the queries completed in an order
\* that differs from the request's, the metrics of the returned list are not
\* in the order of request.metrics.
C10_Original ==
  (pc = "resolved" /\ RawIdsAlong(settleOrder) # RawIdsAlong(RequestOrder)) =>
    ReturnedIds # RawIdsAlong(RequestOrder)

\* C10, amended: the queries may complete in any order, but the metrics of
\* the returned list are always in the order of request.metrics, whatever the
\* completion order was.
C10_InputOrderKept ==
  pc = "resolved" => ReturnedIds = RawIdsAlong(RequestOrder)

\* the second metric's query completed first, with other entries
C10_Witness ==
  /\ pc = "resolved"
  /\ settleOrder = << 2, 1 >>
  /\ RawIdsAlong(settleOrder) # RawIdsAlong(RequestOrder)
  /\ Len(returned) >= 2

\* every task fulfilled: Promise.all handed results to the then-chain
NormalizationRan ==
  /\ validNode = "true"
  /\ \A i \in Tasks : requests[i].st = "fulfilled"

\* where the raw responses hold a non-reserved key outside the registry
InvalidRawKeys ==
  { ip \in RawMetricKeys : requests[ip[1]].raw[ip[2]].key \notin InventoryMetricRT }

\* C11: when all metric queries succeeded and some non-reserved key of some
\* raw response is not in InventoryMetricRT, getMetrics is rejected with the
\* ConfigurationError naming the first such key (in request order, then key
\* order) and returns no entry, whatever valid keys the responses also hold.
C11_InvalidKeyRejects ==
  (NormalizationRan /\ InvalidRawKeys # {}) =>
    LET first == CHOOSE ip \in InvalidRawKeys :
                   \A jq \in InvalidRawKeys :
                     ip[1] < jq[1] \/ (ip[1] = jq[1] /\ ip[2] <= jq[2])
    IN  /\ pc = "rejected"
        /\ returned = << >>
        /\ thrown.kind = "ConfigurationError"
        /\ thrown.id = requests[first[1]].raw[first[2]].key

\* two queries succeeded, the first with valid keys only, the second not
C11_Witness ==
  /\ NormalizationRan
  /\ Len(requests) = 2
  /\ pc = "rejected"
  /\ thrown.id = "bogus"
  /\ \A p \in 1..Len(requests[1].raw) : requests[1].raw[p].key \in InventoryMetricRT
  /\ requests[1].raw # << >>
  /\ \E p \in 1..Len(requests[2].raw) : requests[2].raw[p].key = "awsCpuUtilization"

\* the raw entries with a non-reserved key, task after task in the given order
RECURSIVE RawEntriesAlong(_)
RawEntriesAlong(order) ==
  IF order = << >> THEN << >>
  ELSE SelectSeq(requests[Head(order)].raw,
                 LAMBDA x : x.key \notin {"type", "uiRestrictions"})
         \o RawEntriesAlong(Tail(order))

\* C12: every returned entry carries the series of the backend panel of its
\* key: as many series, in the same order, id and label copied, and for each
\* series as many points as the backend sent, the p-th point being
\* {timestamp, value} of the p-th [timestamp, value] pair.
C12_SeriesPreserved ==
  pc = "resolved" =>
    LET raws == RawEntriesAlong(RequestOrder)
    IN  /\ Len(returned) = Len(raws)
        /\ \A e \in 1..Len(returned) :
             LET out == returned[e].series
                 src == raws[e].panel.series
             IN  /\ Len(out) = Len(src)
                 /\ \A s \in 1..Len(src) :
                      /\ out[s].id = src[s].id
                      /\ out[s].label = src[s].label
                      /\ Len(out[s].data) = Len(src[s].data)
                      /\ \A p \in 1..Len(src[s].data) :
                           /\ out[s].data[p].timestamp = src[s].data[p][1]
                           /\ out[s].data[p].value = src[s].data[p][2]

\* [[1000, 500], [2000, 600]] came back as two points in that order
C12_Witness ==
  /\ pc = "resolved"
  /\ \E e \in 1..Len(returned) :
       /\ Len(returned[e].series) = 2
       /\ returned[e].series[2].data =
            << [timestamp |-> 1000, value |-> 500], [timestamp |-> 2000, value |-> 600] >>
       /\ returned[e].series[1].data = << [timestamp |-> 1000, value |-> 40] >>

\* task i has dispatched its TSVB query
Dispatched(i) == requests[i].sent # NoQuery

\* C13 as claimed: a dispatched query of a cloud-scoped model filters on the
\* model's mapped field with the cloud id, that of a standalone model on the
\* node's id field with the node id, and no other pair is dispatched.
C13_Original ==
  \A i \in Tasks :
    Dispatched(i) =>
      LET model == Catalog[options.metrics[i]]
      IN  IF model.id_type = "cloud"
            THEN /\ model.map_field_to # ""
                 /\ requests[i].sent.field = model.map_field_to
                 /\ requests[i].sent.id = options.cloudId
            ELSE /\ requests[i].sent.field = nodeField
                 /\ requests[i].sent.id = NodeId

\* C13, amended: the field of the single match filter is the model's mapped
\* field when the model declares one and the node's id field otherwise; its
\* value is the (present) cloud id for a cloud-scoped model and the node id
\* for a standalone one. The two pairs of the claim are the only ones
\* dispatched for models that declare a mapped field exactly when they are
\* cloud-scoped.
C13_MatchFilter ==
  \A i \in Tasks :
    Dispatched(i) =>
      LET model == Catalog[options.metrics[i]]
          sent == requests[i].sent
      IN  /\ model.map_field_to # "" => sent.field = model.map_field_to
          /\ model.map_field_to = "" => sent.field = nodeField
          /\ model.id_type = "cloud" => sent.id = options.cloudId /\ sent.id # ""
          /\ model.id_type # "cloud" => sent.id = NodeId
          /\ (model.id_type = "cloud" <=> model.map_field_to # "") =>
               << sent.field, sent.id >> \in
                 { << model.map_field_to, options.cloudId >>, << nodeField, NodeId >> }

\* both kinds of model of the claim dispatched by one request
C13_Witness ==
  /\ Len(requests) = 2
  /\ Dispatched(1) /\ Dispatched(2)
  /\ requests[1].sent.field = "cloud.instance.id" /\ requests[1].sent.id = "cloud-1"
  /\ requests[2].sent.field = nodeField /\ requests[2].sent.id = NodeId
  /\ options.metrics = << "awsCpuUtilization", "hostCpuUsage" >>

\* C14: when the search of the existence check failed, getMetrics is
\* rejected with the backend's error, the check was sent once only, and no
\* task was started: no interval probe and no metric query was issued and
\* nothing is returned.
C14_CheckFailureAborts ==
  validNode = "error" =>
    /\ pc = "rejected"
    /\ thrown = [kind |-> "BackendUnavailable", id |-> "search", task |-> 0]
    /\ searches = 1
    /\ requests = << >>
    /\ returned = << >>
    /\ \A i \in Requested :
         probes[i] = 0 /\ queries[i] = 0 /\ calculated[i] = Uncalculated

C14_Witness ==
  /\ validNode = "error"
  /\ pc = "rejected"
  /\ Len(options.metrics) = 2
  /\ \A i \in Requested : ~Unknown(i)

\* C15: on a context that is cancelled when getMetrics is called, the
\* dispatch of the existence check fails at once, getMetrics is rejected with
\* that error, and no search, interval probe or metric query reaches the
\* backend.
C15_CancelledBeforeIO ==
  cancelled =>
    /\ searches = 0
    /\ \A i \in Requested : probes[i] = 0 /\ queries[i] = 0
    /\ requests = << >>
    /\ pc \in {"idle", "rejected"}
    /\ pc = "rejected" => thrown.kind = "Cancelled" /\ returned = << >>

C15_Witness ==
  /\ cancelled
  /\ pc = "rejected"
  /\ Len(options.metrics) = 2
  /\ \A i \in Requested : ~Unknown(i)

\* C16: once getMetrics has settled its outcome never changes, whatever its
\* tasks do afterwards; and a task whose interval calculation returns after
\* getMetrics was rejected carries on exactly as before the rejection: unless
\* its model lacks the cloud id it dispatches its metric query.
C16_SiblingsKeepRunning ==
  [][ /\ Settled => (pc' = pc /\ thrown' = thrown /\ returned' = returned)
      /\ \A i \in Tasks :
           ( /\ pc = "rejected"
             /\ requests[i].st = "interval"
             /\ calculated'[i] # Uncalculated
             /\ ~CloudMissing(i) ) =>
             /\ requests'[i].st = "tsvb"
             /\ requests'[i].sent # NoQuery
             /\ queries'[i] = queries[i] + 1 ]_vars

\* the second id had no model; the first task's probe was still out then,
\* yet its query was sent and answered, and the outcome stayed
C16_Witness ==
  /\ Len(requests) = 2
  /\ Unknown(2)
  /\ pc = "rejected"
  /\ thrown = requests[2].err
  /\ probes[1] = 1 /\ queries[1] = 1
  /\ requests[1].st = "fulfilled"
  /\ results[1] = requests[1].raw
  /\ returned = << >>

\* task i waits for an answer of the backend
InFlight(i) == requests[i].st \in {"interval", "tsvb"}

\* C17: when the existence check has succeeded every one of the N tasks has
\* been started before any of them has finished and before the join: each
\* task with a model has sent its first backend call, and as long as no task
\* has settled the calls of all N tasks are in flight together.
C17_StartedTogether ==
  validNode = "true" =>
    /\ Len(requests) = Len(options.metrics)
    /\ \A i \in Tasks :
         ~Unknown(i) =>
           IF Catalog[options.metrics[i]].requires # << >>
             THEN probes[i] = 1
             ELSE CloudMissing(i) \/ queries[i] = 1
    /\ settleOrder = << >> => \A i \in Tasks : InFlight(i)
    /\ (pc = "join" /\ Len(requests) > 0) => \E i \in Tasks : InFlight(i)

\* two tasks in flight at once, one at its probe and one at its query
C17_Witness ==
  /\ pc = "join"
  /\ Len(requests) = 2
  /\ settleOrder = << >>
  /\ requests[1].st = "interval" /\ probes[1] = 1
  /\ requests[2].st = "tsvb" /\ queries[2] = 1 /\ probes[2] = 1

\* C18: a task dispatches its metric query only after its interval
\* calculation has returned (after its probe, when its model requires one);
\* the dispatched interval is '>=<n>s' for the n the calculator returned, and
\* it is the model's own interval, the request's hint, exactly when the
\* calculator returned none, as it does for a model that requires nothing.
C18_IntervalOverride ==
  \A i \in Tasks :
    Dispatched(i) =>
      LET requires == Catalog[options.metrics[i]].requires
          interval == requests[i].sent.interval
      IN  /\ calculated[i] # Uncalculated
          /\ requires # << >> => probes[i] = 1
          /\ requires = << >> => probes[i] = 0 /\ calculated[i] = NoInterval
          /\ calculated[i] # NoInterval =>
               interval = [op |-> ">=", n |-> calculated[i].n, unit |-> "s"]
          /\ calculated[i] = NoInterval <=> interval = IntervalHint

\* one query with the calculator's 30 s, one with the hint of a model that
\* requires nothing
C18_Witness ==
  /\ Len(requests) = 2
  /\ Dispatched(1) /\ Dispatched(2)
  /\ requests[1].sent.interval = [op |-> ">=", n |-> 30, unit |-> "s"]
  /\ Catalog[options.metrics[2]].requires = << >>
  /\ requests[2].sent.interval = [op |-> "", n |-> 10, unit |-> "s"]

\* the non-reserved entries of the raw response of task i, in key order
KeptOf(i) ==
  SelectSeq(requests[i].raw, LAMBDA x : x.key \notin {"type", "uiRestrictions"})

\* how many entries the tasks before task i contribute
RECURSIVE EntriesBefore(_)
EntriesBefore(i) ==
  IF i <= 1 THEN 0 ELSE EntriesBefore(i - 1) + Len(KeptOf(i - 1))

\* C19: the list getMetrics resolves with is fixed by the raw responses of
\* the metrics alone, not by the order in which the queries completed: the
\* entries of metric i occupy the positions after those of all metrics
\* before it in request.metrics, in the key order of its raw response.
C19_InterleavingIndependent ==
  pc = "resolved" =>
    /\ Len(returned) = EntriesBefore(Len(requests) + 1)
    /\ \A i \in Tasks :
         \A p \in 1..Len(KeptOf(i)) :
           /\ returned[EntriesBefore(i) + p].id = KeptOf(i)[p].key
           /\ Len(returned[EntriesBefore(i) + p].series) = Len(KeptOf(i)[p].panel.series)

\* the queries completed in reverse order and the first metric's response
\* holds two keys
C19_Witness ==
  /\ pc = "resolved"
  /\ settleOrder = << 2, 1 >>
  /\ Len(KeptOf(1)) = 2
  /\ Len(KeptOf(2)) = 1
  /\ returned[1].id = "hostLoad" /\ returned[2].id = "awsOverview"
  /\ returned[3].id = "hostCpuUsage"

\* C20: getMetrics settles exactly once, and it always settles when the
\* backend does: once called, and with every outstanding backend call
\* completing, the call resolves or rejects; a resolved call carries no
\* error and a rejected call no list; the outcome of a settled call is never
\* replaced, however many per-metric tasks fail afterwards.
C20_SettlesExactlyOnce ==
  /\ [](pc # "idle" => <>Settled)
  /\ [](pc = "resolved" => thrown = NoError)
  /\ [](pc = "rejected" => thrown # NoError /\ returned = << >>)
  /\ [](~Settled => thrown = NoError /\ returned = << >>)
  /\ [][Settled => pc' = pc /\ thrown' = thrown /\ returned' = returned]_vars

\* a rejected call in which two per-metric tasks failed
C20_Witness ==
  /\ pc = "rejected"
  /\ Len(Failed) = 2
  /\ thrown = requests[Failed[1]].err
  /\ requests[Failed[2]].err # thrown

====
